---------------------------- MODULE Spec2Model ----------------------------
(***************************************************************************)
(* Model of duplicates/duplicates.py: enumeration of a folder tree,        *)
(* size-based pre-selection, chunked hashing, the (file, hash) table, the  *)
(* duplicate report, the single-file lookup and the two-folder comparison. *)
(***************************************************************************)
EXTENDS Integers, Sequences, FiniteSets, TLC

VARIABLES
    fs,             \* the file system: path -> [exists, readable, content]
    pc,             \* position of the running call
    call,           \* the call and its arguments
    input_files,    \* create_table / preselect: input_files
    checked_files,  \* preselect: checked_files
    summary_df,     \* create_table: summary_df, a sequence of [file, hash]
    df_reference,   \* compare_folders: the table of the reference folder
    result,         \* the returned dataframe, a sequence of [file, hash]
    csv_file,       \* the duplicates.csv that save_csv has written
    vanished,       \* paths deleted by another process while the call ran
    message,        \* hashfile: the open files, [content, pos] each
    block,          \* hashfile: the block read last
    m,              \* hashfile: the bytes fed to the sha256 object so far
    digest          \* hashfile: the digests returned so far

vars == <<fs, pc, call, input_files, checked_files, summary_df,
          df_reference, result, csv_file, vanished, message, block, m,
          digest>>

---------------------------------------------------------------------------
(* Bounds of the model *)

NumPaths == 4
NumContents == 2
MaxVanish == 1
HashMaxLen == 3
MaxBlock == 3

---------------------------------------------------------------------------
(* The folder tree.  Root folder "R" holds the sub-folders "A" and "B" and *)
(* files of its own: of every three paths the first lies in "A", the       *)
(* second in "B" and the third in "R" itself.                              *)

Bytes == {0, 1}
Paths == 1 .. NumPaths
Folders == {"A", "B", "R"}
None == "None"

DirOf(p) == CASE p % 3 = 1 -> "A"
            []   p % 3 = 2 -> "B"
            []   OTHER -> "R"
ExtOf(p) == IF p % 4 = 0 THEN ".jpg" ELSE ".txt"
Under(p, folder) == folder = "R" \/ DirOf(p) = folder

BytesUpTo(n) == UNION {[1 .. k -> Bytes] : k \in 0 .. n}

(* The k-th byte string, by length and then by value: <<>>, <<0>>, <<1>>,  *)
(* <<0, 0>>, ...  The files of the tree hold the first NumContents ones.   *)
RECURSIVE ByteString(_)
ByteString(k) ==
    IF k = 0 THEN <<>>
    ELSE ByteString((k - 1) \div 2) \o <<(k - 1) % 2>>

Contents == {ByteString(k) : k \in 0 .. NumContents - 1}

Absent == [exists |-> FALSE, readable |-> FALSE, content |-> <<>>]
FileStates == {Absent} \cup
              [exists : {TRUE}, readable : BOOLEAN, content : Contents]

Range(s) == {s[i] : i \in DOMAIN s}
Min(a, b) == IF a < b THEN a ELSE b

(* Rows of seq whose mask entry is true, in order: df[mask]. *)
RECURSIVE KeepMask(_, _)
KeepMask(seq, mask) ==
    IF seq = <<>> THEN <<>>
    ELSE (IF Head(mask) THEN <<Head(seq)>> ELSE <<>>)
         \o KeepMask(Tail(seq), Tail(mask))

(* duplicated with keep='first': the first occurrence is not marked. *)
duplicated_keep_first(values) ==
    [i \in DOMAIN values |->
        \E j \in DOMAIN values : j < i /\ values[j] = values[i]]

(* Series.duplicated(keep=False): entry i is true when the value at i      *)
(* occurs at another index too.                                            *)
duplicated(values) ==
    [i \in DOMAIN values |->
        \E j \in DOMAIN values : j /= i /\ values[j] = values[i]]

---------------------------------------------------------------------------
(* Fingerprints are strings, modelled as sequences of character codes.     *)

FailureMarker ==
    <<78, 111, 32, 104, 97, 115, 104, 32, 99, 111, 117, 108, 100, 32,
      98, 101, 32, 103, 101, 110, 101, 114, 97, 116, 101, 100>>

HexChar(d) == IF d < 10 THEN 48 + d ELSE 87 + d

(* Position of a byte string in the enumeration of all byte strings.       *)
RECURSIVE StreamIndex(_)
StreamIndex(bytes) ==
    IF bytes = <<>> THEN 0
    ELSE 2 * StreamIndex(SubSeq(bytes, 1, Len(bytes) - 1))
         + bytes[Len(bytes)] + 1

(* sha256().hexdigest() of the bytes fed: a collision-free digest, written *)
(* as a fixed-width lowercase hex string.                                  *)
hexdigest(bytes) ==
    LET v == (StreamIndex(bytes) * 167 + 7) % 256
    IN  <<HexChar(v \div 16), HexChar(v % 16)>>

(* Python's order on strings: lexicographic by character code.             *)
StrLess(a, b) ==
    \/ \E i \in 1 .. Min(Len(a), Len(b)) :
          /\ a[i] < b[i]
          /\ \A j \in 1 .. i - 1 : a[j] = b[j]
    \/ /\ Len(a) < Len(b)
       /\ \A j \in 1 .. Len(a) : a[j] = b[j]

StrLeq(a, b) == a = b \/ StrLess(a, b)

---------------------------------------------------------------------------
(* The file system calls the program makes.                                *)

isfile(f, p) == f[p].exists

(* open(file, 'rb') and os.path.getsize(file) raise OSError on a path that *)
(* is gone; open raises it as well on a file that may not be read.         *)
open_raises(f, p) == ~(f[p].exists /\ f[p].readable)
getsize_raises(f, p) == ~f[p].exists
getsize(f, p) == Len(f[p].content)

(* The orders in which os.walk("R") can yield the paths of the tree.  The  *)
(* walk is top-down: the files of the root itself come first, then one     *)
(* sub-folder after the other, the files of a folder together.  The order  *)
(* of the sub-folders and of the files of a folder is the order in which   *)
(* the file system lists the directory, which the code does not fix.       *)
Listings ==
    {o \in Permutations(Paths) :
        /\ \A i, j \in Paths :
              (i < j /\ DirOf(o[j]) = "R") => DirOf(o[i]) = "R"
        /\ \A i, j, k \in Paths :
              (i < j /\ j < k /\ DirOf(o[i]) = DirOf(o[k]))
                => DirOf(o[j]) = DirOf(o[i])}

(* os.walk(folder) on a file system that lists its directories as in       *)
(* listing.                                                                *)
Walk(folder, listing) == SelectSeq(listing, LAMBDA p : Under(p, folder))

filelist(f, filepath, ext, listing) ==
    SelectSeq(Walk(filepath, listing),
              LAMBDA p : f[p].exists /\ (ext = None \/ ExtOf(p) = ext))

(* A read that returns nothing when fewer than block_size bytes remain. *)
read_full_blocks_only(content, pos, block_size) ==
    IF pos + block_size <= Len(content)
    THEN SubSeq(content, pos + 1, pos + block_size)
    ELSE <<>>

(* message.read(block_size) at position pos. *)
read(content, pos, block_size) ==
    SubSeq(content, pos + 1, Min(pos + block_size, Len(content)))

block_size_default == 65536

(* The read loop of hashfile on an opened file. *)
RECURSIVE ReadLoop(_, _, _, _)
ReadLoop(content, pos, block_size, fed) ==
    LET blk == read(content, pos, block_size)
    IN  IF Len(blk) > 0
        THEN ReadLoop(content, pos + Len(blk), block_size, fed \o blk)
        ELSE hexdigest(fed)

(* hashfile(file): defined when open succeeds, OSError otherwise. *)
hashfile(f, p, block_size) == ReadLoop(f[p].content, 0, block_size, <<>>)

(* hashtable that appends nothing for a failure until the batch is over:   *)
(* the digests of the readable files first, the markers after them.        *)
hashtable_failures_last(f, files) ==
    LET ok == SelectSeq(files, LAMBDA p : ~open_raises(f, p))
        bad == SelectSeq(files, LAMBDA p : open_raises(f, p))
    IN  [i \in DOMAIN ok |-> hashfile(f, ok[i], block_size_default)]
        \o [i \in DOMAIN bad |-> FailureMarker]

(* hashtable that records the digest of no data for a failure. *)
hashtable_digest_of_nothing(f, files) ==
    [i \in DOMAIN files |->
        IF open_raises(f, files[i]) THEN hexdigest(<<>>)
        ELSE hashfile(f, files[i], block_size_default)]

(* hashtable(files): one entry per path, the marker where hashfile raised. *)
hashtable(f, files) ==
    [i \in DOMAIN files |->
        IF open_raises(f, files[i]) THEN FailureMarker
        ELSE hashfile(f, files[i], block_size_default)]

---------------------------------------------------------------------------
(* Dataframes are sequences of rows [file, hash].                          *)

DataFrame(files, hashes) ==
    [i \in DOMAIN files |-> [file |-> files[i], hash |-> hashes[i]]]

Column(df, c) == [i \in DOMAIN df |-> df[i][c]]

(* preselect, first loop: the input paths that are regular files. *)
preselect_checked(f, files) == SelectSeq(files, LAMBDA p : isfile(f, p))

(* preselect filtering the sizes with keep='first'. *)
preselect_sized_keep_first(f, checked) ==
    LET size == [i \in DOMAIN checked |-> getsize(f, checked[i])]
    IN  KeepMask(checked, duplicated_keep_first(size))

(* preselect, the size table and its filter; getsize must not raise. *)
preselect_sized(f, checked) ==
    LET size == [i \in DOMAIN checked |-> getsize(f, checked[i])]
    IN  KeepMask(checked, duplicated(size))

preselect(f, files) == preselect_sized(f, preselect_checked(f, files))

create_table(f, folder, ext, pre, listing) ==
    LET listed == filelist(f, folder, ext, listing)
        files == IF pre THEN preselect(f, listed) ELSE listed
    IN  DataFrame(files, hashtable(f, files))

IsSortedByHash(df) ==
    \A i \in 1 .. Len(df) - 1 : StrLeq(df[i].hash, df[i + 1].hash)

(* The report left in table order. *)
sort_values_none(df) == {df}

(* df.sort_values(by='hash'): pandas sorts with kind='quicksort', which is *)
(* not stable (numpy keeps ties in order only while the column is short    *)
(* enough for its insertion sort), so every ordering of the rows that      *)
(* ascends by hash is a possible outcome; the rows of the model stand for  *)
(* tables of any length.                                                   *)
sort_values(df) ==
    {s \in {[i \in DOMAIN df |-> df[pi[i]]] :
                pi \in Permutations(DOMAIN df)} : IsSortedByHash(s)}

(* Lines 90-91: the rows whose hash occurs more than once, then the sort. *)
duplicate_rows(df) == KeepMask(df, duplicated(Column(df, "hash")))

list_all_duplicates(f, folder, ext, fastscan, listing) ==
    sort_values(duplicate_rows(create_table(f, folder, ext, fastscan, listing)))

(* save_csv(csv_path, duplicates): the file csv_path/duplicates.csv with   *)
(* the rows of the report; to_csv raises OSError when the folder csv_path  *)
(* does not exist.                                                         *)
CsvPaths == {"./", "missing"}
NoCsv == [dir |-> "", name |-> "", rows |-> <<>>]
save_csv_raises(csv_path) == csv_path = "missing"
save_csv(csv_path, duplicates) ==
    [dir |-> csv_path, name |-> "duplicates.csv", rows |-> duplicates]

---------------------------------------------------------------------------
(* The scan: list_all_duplicates(folder, ext=ext, fastscan=fastscan), run  *)
(* step by step while another process may delete files.                    *)

NoCall == [op |-> "none", folder |-> "R", ext |-> None, fastscan |-> FALSE,
           to_csv |-> FALSE, csv_path |-> "./",
           file |-> 0, reference_folder |-> "R"]

Init ==
    /\ fs \in [Paths -> FileStates]
    /\ pc = "idle"
    /\ call = NoCall
    /\ input_files = <<>>
    /\ checked_files = <<>>
    /\ summary_df = <<>>
    /\ df_reference = <<>>
    /\ result = <<>>
    /\ csv_file = NoCsv
    /\ vanished = {}
    /\ message = <<>>
    /\ block = <<>>
    /\ m = <<>>
    /\ digest = <<>>

othervars == <<df_reference, message, block, m, digest>>

(* Lines 89, 10-13: the call, and filelist(folder, ext=ext) on a file      *)
(* system that lists its directories as in listing.                        *)
CallListAllDuplicates(folder, to_csv, csv_path, ext, fastscan, listing) ==
    /\ pc = "idle"
    /\ call' = [NoCall EXCEPT !.op = "list_all_duplicates", !.folder = folder,
                              !.to_csv = to_csv, !.csv_path = csv_path,
                              !.ext = ext, !.fastscan = fastscan]
    /\ input_files' = filelist(fs, folder, ext, listing)
    /\ pc' = IF fastscan THEN "listed" ELSE "selected"
    /\ UNCHANGED <<fs, checked_files, summary_df, result, csv_file, vanished,
                   othervars>>

(* Lines 138-141: the isfile loop of preselect. *)
PreselectCheck ==
    /\ pc = "listed"
    /\ checked_files' = preselect_checked(fs, input_files)
    /\ pc' = "checked"
    /\ UNCHANGED <<fs, call, input_files, summary_df, result, csv_file,
                   vanished, othervars>>

(* Lines 143-150 and 14: the sizes, the filter on them and the return;     *)
(* getsize raises OSError on a checked file that is gone, and nothing      *)
(* between preselect and the caller of list_all_duplicates catches it.     *)
PreselectSizes ==
    /\ pc = "checked"
    /\ IF \E i \in DOMAIN checked_files : getsize_raises(fs, checked_files[i])
       THEN /\ pc' = "raised_preselect"
            /\ UNCHANGED input_files
       ELSE /\ pc' = "selected"
            /\ input_files' = preselect_sized(fs, checked_files)
    /\ UNCHANGED <<fs, call, checked_files, summary_df, result, csv_file,
                   vanished, othervars>>

(* Lines 16-21: the table of the files and their hashes. *)
BuildTable ==
    /\ pc = "selected"
    /\ summary_df' = DataFrame(input_files, hashtable(fs, input_files))
    /\ pc' = "hashed"
    /\ UNCHANGED <<fs, call, input_files, checked_files, result, csv_file,
                   vanished, othervars>>

(* Lines 93-96 and 130-133: save_csv when to_csv is True, and the return;  *)
(* an OSError of save_csv reaches the caller and nothing is returned.      *)
SaveAndReturn(to_csv, csv_path, duplicate_files) ==
    IF to_csv /\ save_csv_raises(csv_path)
    THEN /\ pc' = "raised_save_csv"
         /\ UNCHANGED <<result, csv_file>>
    ELSE /\ pc' = "done"
         /\ result' = duplicate_files
         /\ csv_file' = IF to_csv THEN save_csv(csv_path, duplicate_files)
                        ELSE csv_file

(* Lines 90-96: the duplicated rows, sorted by hash, saved and returned. *)
Group ==
    /\ pc = "hashed"
    /\ \E duplicate_files \in sort_values(duplicate_rows(summary_df)) :
          SaveAndReturn(call.to_csv, call.csv_path, duplicate_files)
    /\ UNCHANGED <<fs, call, input_files, checked_files, summary_df, vanished,
                   othervars>>

(* Another process deletes a file that the scan has listed and has not     *)
(* hashed yet.                                                             *)
Vanish(p) ==
    /\ pc \in {"listed", "checked", "selected"}
    /\ Cardinality(vanished) < MaxVanish
    /\ p \in Range(input_files)
    /\ fs[p].exists
    /\ fs' = [fs EXCEPT ![p] = Absent]
    /\ vanished' = vanished \cup {p}
    /\ UNCHANGED <<pc, call, input_files, checked_files, summary_df, result,
                   csv_file, othervars>>

Next ==
    \/ \E folder \in Folders, to_csv \in BOOLEAN, csv_path \in CsvPaths,
          ext \in {None, ".txt"}, fastscan \in BOOLEAN, listing \in Listings :
          CallListAllDuplicates(folder, to_csv, csv_path, ext, fastscan,
                                listing)
    \/ PreselectCheck
    \/ PreselectSizes
    \/ BuildTable
    \/ Group
    \/ \E p \in Paths : Vanish(p)

Spec == Init /\ [][Next]_vars

---------------------------------------------------------------------------
(* Properties of the scan.                                                 *)

Count(df, h) == Cardinality({i \in DOMAIN df : df[i].hash = h})
Readable(p) == fs[p].exists /\ fs[p].readable
Scanned == {p \in Paths : /\ Under(p, call.folder)
                          /\ (call.ext = None \/ ExtOf(p) = call.ext)}

(* C1: the output of list_all_duplicates holds no record of the table      *)
(* whose fingerprint occurs once in the table, holds every record whose    *)
(* fingerprint occurs twice or more exactly once, and ascends by           *)
(* fingerprint, so that the records of a duplicate set are contiguous.     *)
C1_GroupingCorrect ==
    pc = "done" =>
      /\ \A j \in DOMAIN summary_df :
            Cardinality({i \in DOMAIN result : result[i] = summary_df[j]})
              = IF Count(summary_df, summary_df[j].hash) >= 2 THEN 1 ELSE 0
      /\ \A i \in DOMAIN result : result[i] \in Range(summary_df)
      /\ \A i, k \in DOMAIN result :
            i < k => StrLeq(result[i].hash, result[k].hash)
      /\ \A i, j, k \in DOMAIN result :
            (i < j /\ j < k /\ result[i].hash = result[k].hash)
              => result[j].hash = result[i].hash

(* Two duplicate sets that the table holds interleaved and out of order. *)
C1_Witness ==
    /\ pc = "done"
    /\ \E i, k \in DOMAIN result : result[i].hash /= result[k].hash
    /\ \E a, b, c \in DOMAIN summary_df :
          /\ a < b /\ b < c
          /\ summary_df[a].hash = summary_df[c].hash
          /\ StrLess(summary_df[b].hash, summary_df[a].hash)

(* C5: hashtable returns one entry per path, entry i the digest of path i  *)
(* when the file can be read and the failure marker, which is no digest,   *)
(* when it cannot; create_table pairs path i with entry i.                 *)
C5_HashtableAligned ==
    pc \in {"hashed", "done"} =>
      /\ Len(summary_df) = Len(input_files)
      /\ \A i \in DOMAIN summary_df :
            /\ summary_df[i].file = input_files[i]
            /\ summary_df[i].hash =
                 IF Readable(input_files[i])
                 THEN hexdigest(fs[input_files[i]].content)
                 ELSE FailureMarker
      /\ \A c \in Contents : hexdigest(c) /= FailureMarker

(* A failure between two files that are hashed. *)
C5_Witness ==
    /\ pc = "hashed"
    /\ \E i, j, k \in DOMAIN summary_df :
          /\ i < j /\ j < k
          /\ summary_df[i].hash /= FailureMarker
          /\ summary_df[j].hash = FailureMarker
          /\ summary_df[k].hash /= FailureMarker
          /\ summary_df[k].hash /= summary_df[i].hash

(* C8: a file that cannot be hashed stops neither the hashing nor the      *)
(* grouping; every two readable files of the scan with the same content    *)
(* are reported; a record with the failure marker is reported exactly when *)
(* two or more files of the table could not be hashed.                     *)
C8_UnreadableFiles ==
    /\ pc = "selected" => ENABLED BuildTable
    /\ pc = "hashed" => sort_values(duplicate_rows(summary_df)) /= {}
    /\ pc = "done" =>
         /\ \A p, q \in Scanned :
               (/\ p /= q /\ Readable(p) /\ Readable(q)
                /\ fs[p].content = fs[q].content)
                 => [file |-> p, hash |-> hexdigest(fs[p].content)]
                      \in Range(result)
         /\ (\E i \in DOMAIN result : result[i].hash = FailureMarker)
              <=> Cardinality({i \in DOMAIN summary_df :
                                 ~Readable(summary_df[i].file)}) >= 2

(* One unreadable file beside a pair of readable duplicates. *)
C8_Witness ==
    /\ pc = "done"
    /\ Cardinality({i \in DOMAIN summary_df :
                      ~Readable(summary_df[i].file)}) = 1
    /\ Len(result) = 2
    /\ \A i \in DOMAIN result : result[i].hash /= FailureMarker

IndexIn(df, row) == CHOOSE j \in DOMAIN df : df[j] = row

(* C9 as stated: records of the output with equal fingerprints stand in    *)
(* the order they have in the table built by create_table.                 *)
C9_StableOrder ==
    pc = "done" =>
      \A i, k \in DOMAIN result :
         (i < k /\ result[i].hash = result[k].hash)
           => IndexIn(summary_df, result[i]) < IndexIn(summary_df, result[k])

(* C9 as amended: the records of the output that carry one fingerprint are *)
(* the records of the table that carry it, each once, standing next to one *)
(* another; their order among themselves is not fixed.                     *)
C9_GroupsKept ==
    pc = "done" =>
      \A h \in {result[i].hash : i \in DOMAIN result} :
         LET at == {i \in DOMAIN result : result[i].hash = h}
         IN  /\ {result[i] : i \in at}
                  = {summary_df[j] : j \in {j \in DOMAIN summary_df :
                                              summary_df[j].hash = h}}
             /\ Cardinality(at) = Count(summary_df, h)
             /\ \A i, k \in at : \A j \in i .. k : j \in at

(* A duplicate set whose records the table holds apart. *)
C9_Witness ==
    /\ pc = "done"
    /\ \E a, b, c \in DOMAIN summary_df :
          /\ a < b /\ b < c
          /\ summary_df[a].hash = summary_df[c].hash
          /\ summary_df[b].hash /= summary_df[a].hash
          /\ Count(summary_df, summary_df[b].hash) >= 2

(* C2 as stated: with the file system unchanged, the scan reports the same *)
(* set of records as the scan with the other setting of fastscan.          *)
C2_FastscanSameReport ==
    (pc = "done" /\ vanished = {}) =>
       \A listing \in Listings :
          Range(result) =
            Range(duplicate_rows(
                    create_table(fs, call.folder, call.ext, ~call.fastscan,
                                 listing)))

(* C6: preselect returns, in input order, the input paths that are regular *)
(* files and have the size of another such input path.                     *)
C6_PreselectResult ==
    [][(pc = "checked" /\ pc' = "selected") =>
         input_files' =
           SelectSeq(input_files,
             LAMBDA p : /\ fs[p].exists
                        /\ \E q \in Range(input_files) :
                              /\ q /= p /\ fs[q].exists
                              /\ Len(fs[q].content) = Len(fs[p].content))]_vars

(* preselect returned some of its input, dropped a file of a size of its   *)
(* own, and a listed file was gone when it ran.                            *)
C6_Witness ==
    /\ pc = "selected" /\ call.fastscan
    /\ input_files /= <<>>
    /\ Len(input_files) < Len(checked_files)
    /\ \E p \in vanished : \A i \in DOMAIN checked_files : checked_files[i] /= p

(* C7 as stated: preselect surfaces no error for a file that vanishes      *)
(* between enumeration and the size query.                                 *)
C7_NoErrorFromPreselect == pc /= "raised_preselect"


---------------------------------------------------------------------------
(* compare_folders(reference_folder, compare_folder, ext=ext)              *)

(* Line 125: one boolean Series per row of df_compare, its entry j telling *)
(* whether the row's hash equals the hash of row j of df_reference.        *)
ind_duplicates(df_compare, df_ref) ==
    [i \in DOMAIN df_compare |->
        [j \in DOMAIN df_ref |-> df_compare[i].hash = df_ref[j].hash]]

(* Line 126, iloc with the list of Series: the list becomes a 2-D boolean  *)
(* array and the rows taken are array.nonzero()[0], the row index of every *)
(* true entry in row-major order, so a row is taken once per match.        *)
RECURSIVE nonzero_rows(_, _)
nonzero_rows(mask, i) ==
    IF i > Len(mask) THEN <<>>
    ELSE [k \in 1 .. Cardinality({j \in DOMAIN mask[i] : mask[i][j]}) |-> i]
         \o nonzero_rows(mask, i + 1)

iloc(df, mask) ==
    LET inds == nonzero_rows(mask, 1)
    IN  [k \in DOMAIN inds |-> df[inds[k]]]

(* drop_duplicates left out. *)
drop_duplicates_none(df) == df

(* Line 128, drop_duplicates(subset='file'): the first row of each file. *)
drop_duplicates(df) ==
    KeepMask(df, [i \in DOMAIN df |->
                    ~\E j \in DOMAIN df : j < i /\ df[j].file = df[i].file])

compare_folders(df_ref, df_compare) ==
    drop_duplicates(iloc(df_compare, ind_duplicates(df_compare, df_ref)))

(* Line 122, on a file system that lists its directories as in listing:    *)
(* the table of the reference folder.                                      *)
CompareReference(reference_folder, compare_folder, to_csv, csv_path, ext, listing) ==
    /\ pc = "idle"
    /\ call' = [NoCall EXCEPT !.op = "compare_folders",
                              !.reference_folder = reference_folder,
                              !.folder = compare_folder,
                              !.to_csv = to_csv, !.csv_path = csv_path,
                              !.ext = ext]
    /\ df_reference' = create_table(fs, reference_folder, ext, FALSE, listing)
    /\ pc' = "referenced"
    /\ UNCHANGED <<fs, input_files, checked_files, summary_df, result,
                   csv_file, vanished, message, block, m, digest>>

(* Another process deletes a file of the compare folder after the          *)
(* reference table is built and before the compare folder is walked.       *)
VanishBetweenTables(p) ==
    /\ pc = "referenced"
    /\ Cardinality(vanished) < MaxVanish
    /\ Under(p, call.folder)
    /\ fs[p].exists
    /\ fs' = [fs EXCEPT ![p] = Absent]
    /\ vanished' = vanished \cup {p}
    /\ UNCHANGED <<pc, call, input_files, checked_files, summary_df,
                   df_reference, result, csv_file, message, block, m, digest>>

(* Lines 123-133, the second walk listing the directories as in listing.   *)
CompareFolders(listing) ==
    /\ pc = "referenced"
    /\ summary_df' = create_table(fs, call.folder, call.ext, FALSE, listing)
    /\ SaveAndReturn(call.to_csv, call.csv_path,
                     compare_folders(df_reference, summary_df'))
    /\ UNCHANGED <<fs, call, input_files, checked_files, df_reference,
                   vanished, message, block, m, digest>>

NextCompare ==
    \/ \E reference_folder \in Folders, compare_folder \in Folders,
          to_csv \in BOOLEAN, csv_path \in CsvPaths, ext \in {None, ".txt"},
          listing \in Listings :
             CompareReference(reference_folder, compare_folder, to_csv,
                              csv_path, ext, listing)
    \/ \E p \in Paths : VanishBetweenTables(p)
    \/ \E listing \in Listings : CompareFolders(listing)

SpecCompare == Init /\ [][NextCompare]_vars

Matching == {summary_df[i] : i \in {i \in DOMAIN summary_df :
                \E j \in DOMAIN df_reference :
                   df_reference[j].hash = summary_df[i].hash}}

C3_ExactlyTheMatches ==
    /\ \A r \in Matching :
          Cardinality({i \in DOMAIN result : result[i] = r}) = 1
    /\ \A i \in DOMAIN result : result[i] \in Matching

(* C3 as stated: the result holds the records of the compare table whose   *)
(* fingerprint is in the reference table, each once, and no path of the    *)
(* reference table.                                                        *)
C3_OnlyCompareNeverReference ==
    pc = "done" =>
      /\ C3_ExactlyTheMatches
      /\ \A i \in DOMAIN result : \A j \in DOMAIN df_reference :
            result[i].file /= df_reference[j].file

(* C3 as amended: the result holds the records of the compare table whose  *)
(* fingerprint is in the reference table, each once; a path of the         *)
(* reference table is reported only when the compare table holds it too,   *)
(* which it does when the two folders overlap.                             *)
C3_OnlyCompareRecords ==
    pc = "done" =>
      /\ C3_ExactlyTheMatches
      /\ \A i \in DOMAIN result : \A j \in DOMAIN df_reference :
            result[i].file = df_reference[j].file
              => /\ Under(result[i].file, call.folder)
                 /\ Under(result[i].file, call.reference_folder)
                 /\ \E k \in DOMAIN summary_df :
                       summary_df[k].file = result[i].file

(* Disjoint folders and a compare file that matches two reference files. *)
C3_Witness ==
    /\ pc = "done"
    /\ call.folder = "B" /\ call.reference_folder = "A"
    /\ \E i \in DOMAIN summary_df :
          Cardinality({j \in DOMAIN df_reference :
                         df_reference[j].hash = summary_df[i].hash}) >= 2
    /\ result /= <<>>

---------------------------------------------------------------------------
(* find_duplicates(file, folder)                                           *)

(* Lines 103-113, on a file system that lists its directories as in        *)
(* listing; list_all_duplicates is called with its defaults.               *)
FindDuplicates(file, folder, listing) ==
    /\ pc = "idle"
    /\ call' = [NoCall EXCEPT !.op = "find_duplicates", !.file = file,
                              !.folder = folder]
    /\ summary_df' = create_table(fs, folder, None, FALSE, listing)
    /\ \E duplicate_files \in
          list_all_duplicates(fs, folder, None, FALSE, listing) :
          LET file_hash == hashtable(fs, <<file>>)[1]
          IN  result' = SelectSeq(duplicate_files,
                                  LAMBDA row : row.hash = file_hash)
    /\ pc' = "done"
    /\ UNCHANGED <<fs, input_files, checked_files, df_reference, csv_file,
                   vanished, message, block, m, digest>>

NextFind ==
    \E file \in Paths, folder \in Folders, listing \in Listings :
       FindDuplicates(file, folder, listing)

SpecFind == Init /\ [][NextFind]_vars

(* C4 as stated: every file under folder other than the target with the    *)
(* target's content is in the result, every record of the result carries   *)
(* the target's fingerprint, and the result is empty when no other file    *)
(* has the target's content.                                               *)
C4_FindsDuplicatesOfFile ==
    pc = "done" =>
      /\ \A q \in Paths :
            (/\ q /= call.file /\ Under(q, call.folder)
             /\ Readable(q) /\ Readable(call.file)
             /\ fs[q].content = fs[call.file].content)
              => \E i \in DOMAIN result : result[i].file = q
      /\ \A i \in DOMAIN result :
            result[i].hash = IF Readable(call.file)
                             THEN hexdigest(fs[call.file].content)
                             ELSE FailureMarker
      /\ (Readable(call.file) /\
          ~\E q \in Paths : /\ q /= call.file /\ Readable(q)
                            /\ fs[q].content = fs[call.file].content)
            => result = <<>>


---------------------------------------------------------------------------
(* hashfile(file, block_size), its read loop run step by step on two files *)
(* one after the other.                                                    *)

HashContents == BytesUpTo(HashMaxLen)
BlockSizes == 1 .. MaxBlock

InitHash ==
    /\ fs = [p \in Paths |-> Absent]
    /\ pc = "open"
    /\ call = [NoCall EXCEPT !.op = "hashfile"]
    /\ input_files = <<>>
    /\ checked_files = <<>>
    /\ summary_df = <<>>
    /\ df_reference = <<>>
    /\ result = <<>>
    /\ csv_file = NoCsv
    /\ vanished = {}
    /\ message \in [1 .. 2 -> [content : HashContents, pos : {0},
                               block_size : BlockSizes]]
    /\ block = <<>>
    /\ m = <<>>
    /\ digest = <<>>

scanvars == <<fs, call, input_files, checked_files, summary_df,
              df_reference, result, csv_file, vanished>>

Current == Len(digest) + 1

ReadBlock(k) ==
    LET blk == read(message[k].content, message[k].pos, message[k].block_size)
    IN  /\ block' = blk
        /\ message' = [message EXCEPT ![k].pos = @ + Len(blk)]

(* Lines 51-53: open, a new sha256 object, the first read. *)
HashOpen ==
    /\ pc = "open"
    /\ m' = <<>>
    /\ ReadBlock(Current)
    /\ pc' = "loop"
    /\ UNCHANGED <<digest, scanvars>>

(* Lines 54-56: the body of the loop. *)
HashUpdate ==
    /\ pc = "loop"
    /\ Len(block) > 0
    /\ m' = m \o block
    /\ ReadBlock(Current)
    /\ UNCHANGED <<pc, digest, scanvars>>

(* Lines 54, 57-59: the loop ends on an empty block; the digest. *)
HashDigest ==
    /\ pc = "loop"
    /\ ~(Len(block) > 0)
    /\ digest' = Append(digest, hexdigest(m))
    /\ pc' = IF Len(digest') = 2 THEN "done" ELSE "open"
    /\ UNCHANGED <<message, block, m, scanvars>>

NextHash == HashOpen \/ HashUpdate \/ HashDigest

SpecHash == InitHash /\ [][NextHash]_vars /\ WF_vars(NextHash)

C10_FedInOrder ==
    /\ pc = "loop" =>
         /\ m \o block = SubSeq(message[Current].content, 1,
                                message[Current].pos)
         /\ Len(block) = 0 => m = message[Current].content
    /\ \A k \in DOMAIN digest : digest[k] = hexdigest(message[k].content)
    /\ pc = "done" =>
         (digest[1] = digest[2] <=> message[1].content = message[2].content)

(* C10: for every content and every block size of at least 1 the read loop *)
(* ends, the chunks fed are the content in order, and the digest depends   *)
(* on the content alone: equal for equal contents, different otherwise.    *)
C10_HashfileOfContent == []C10_FedInOrder /\ <>(pc = "done")

(* Two files of equal content read with different block sizes, one of     *)
(* them in several chunks of which the last is shorter than the block.     *)
C10_Witness ==
    /\ pc = "done"
    /\ message[1].content = message[2].content
    /\ message[1].block_size /= message[2].block_size
    /\ \E k \in 1 .. 2 :
          /\ message[k].block_size < Len(message[k].content)
          /\ Len(message[k].content) % message[k].block_size /= 0

=============================================================================
